---- MODULE Spec2Model ----
(***************************************************************************)
(* Model of src/Game.py: the StoryAssistant role (think / act / react      *)
(* run-loop), its two actions WriteStoryStruct and WriteContent, and the   *)
(* sequential fill of the OUTLINE_WRITE_NODES / CONTENT_WRITE_NODES        *)
(* pipelines.                                                              *)
(*                                                                         *)
(* A Python str is a sequence of characters; a character is a one-element  *)
(* token (a TLA+ string).  Fixed template text of a prompt is one token.   *)
(***************************************************************************)
EXTENDS Integers, Sequences, FiniteSets, TLC

\* ------------------------------------------------------------------ bounds
\* Longest directory (number of chapters) the generator may return.
MaxDir == 3
\* Length of the long chapter body the generator may return: with a
\* two-character heading the formatted chapter is 3 + 2 + 2 + 143 = 150 long.
LongLen == 143
\* Most children of a pipeline node in the fill specification.
MaxChildren == 3

\* ------------------------------------------------------- program constants
\* while n < 5 (WriteContent.run)
RetryLimit == 5
\* len(msg.content) > 100 / msg.content[-100] (StoryAssistant._act)
TailLen == 100

\* ------------------------------------------------------------------- text
\* str.find(sub): the lowest 0-based index where sub occurs in s, else -1.
Find(s, sub) ==
    LET hits == { i \in 0..(Len(s) - Len(sub)) :
                    SubSeq(s, i + 1, i + Len(sub)) = sub }
    IN  IF hits = {} THEN -1
        ELSE CHOOSE i \in hits : \A j \in hits : i <= j

\* s[-k] for 1 <= k <= len(s): the single character k places from the end.
IndexFromEnd(s, k) == <<s[Len(s) - k + 1]>>

\* The two failure markers searched by WriteContent.run, as four characters
\* each, sharing their first two characters as in the source.
MarkerUnmet == <<"wu", "fa", "man", "zu">>
MarkerUndone == <<"wu", "fa", "wan", "cheng">>

NL == "\n"
Language == <<"Chinese">>

\* ------------------------------------------------------------ prompt nodes
\* ActionNode keys of the three module-level leaves.
STRUCT_WRITE == "Struct Write"
DIRECTORY_WRITE == "Directory Write"
STORY_WRITE == "Story Write"

\* children of OUTLINE_WRITE_NODES and CONTENT_WRITE_NODES, in insertion order
OutlineChildren == <<STRUCT_WRITE, DIRECTORY_WRITE>>
ContentChildren == <<STORY_WRITE>>

\* An outcome of one call of the text-generation capability: it returns a
\* text, or it raises.
Returned(t) == [ok |-> TRUE, text |-> t]
Raised == [ok |-> FALSE, text |-> <<>>]

\* ------------------------------------------------------- sequential filler
\* ActionNode.simple_fill on one node: one call of the generator, made with
\* the context the node holds; the node's content becomes the raw result.
simple_fill(key, context, out) ==
    [status  |-> IF out.ok THEN "node" ELSE "raise",
     content |-> out.text,
     calls   |-> << [key |-> key, context |-> context] >>]

\* Faulty variant of fill_children: every child is given the context of the
\* first one.
RECURSIVE fill_children_same_context(_, _, _, _)
fill_children_same_context(children, child_context, outs, calls) ==
    IF children = <<>>
    THEN [status |-> "node", content |-> child_context, calls |-> calls]
    ELSE LET child == simple_fill(Head(children), child_context, Head(outs))
         IN  IF child.status = "raise"
             THEN [status |-> "raise", content |-> <<>>,
                   calls |-> calls \o child.calls]
             ELSE fill_children_same_context(Tail(children), child_context,
                                             Tail(outs), calls \o child.calls)

\* The for loop of fill: children in insertion order, each child's content
\* being the next child's context.  outs[j] is the generator's outcome of the
\* j-th call.  Yields the final child_context and the calls made.
RECURSIVE fill_children(_, _, _, _)
fill_children(children, child_context, outs, calls) ==
    IF children = <<>>
    THEN [status |-> "node", content |-> child_context, calls |-> calls]
    ELSE LET child == simple_fill(Head(children), child_context, Head(outs))
         IN  IF child.status = "raise"
             THEN [status |-> "raise", content |-> <<>>,
                   calls |-> calls \o child.calls]
             ELSE fill_children(Tail(children), child.content, Tail(outs),
                                calls \o child.calls)

\* OUTLINE_WRITE_NODES.fill / CONTENT_WRITE_NODES.fill (the same body).
\* status "node": the node is returned with the content given; "raise": the
\* generator raised; "none": no branch matched and None is returned.
fill(key, children, context, outs, strgy) ==
    IF strgy = "simple"
    THEN simple_fill(key, context, Head(outs))
    ELSE IF strgy = "complex"
    THEN fill_children(children, context, outs, <<>>)
    ELSE [status |-> "none", content |-> <<>>, calls |-> <<>>]

\* ---------------------------------------------------------- outline parser
\* A Python dict is kept as the sequence of its items in insertion order.
Quote == "\""
KeyTitle == <<"t", "i", "t", "l", "e">>
KeyDirectory == <<"d", "i", "r", "e", "c", "t", "o", "r", "y">>

Bad == [ok |-> FALSE, val |-> <<>>, next |-> 0]

\* d[k] = v on an insertion-ordered dict: a new key goes last, an old key
\* keeps its place and takes the new value.
DictPut(d, k, v) ==
    IF \E i \in 1..Len(d) : d[i].key = k
    THEN [i \in 1..Len(d) |-> IF d[i].key = k THEN [key |-> k, value |-> v]
                                               ELSE d[i]]
    ELSE Append(d, [key |-> k, value |-> v])

\* A quoted string starting at s[i].
ReadQuoted(s, i) ==
    IF i > Len(s) \/ s[i] # Quote THEN Bad
    ELSE LET ends == { j \in (i + 1)..Len(s) : s[j] = Quote }
         IN  IF ends = {} THEN Bad
             ELSE LET j == CHOOSE x \in ends : \A y \in ends : x <= y
                  IN  [ok |-> TRUE, val |-> SubSeq(s, i + 1, j - 1),
                       next |-> j + 1]

\* A value of a dict: a string or a dict.
StrValue(t) == [kind |-> "str", str |-> t, dict |-> <<>>]
DictValue(d) == [kind |-> "dict", str |-> <<>>, dict |-> d]
AsStr(q) == IF q.ok THEN [q EXCEPT !.val = StrValue(q.val)] ELSE Bad
AsDict(d) == IF d.ok THEN [d EXCEPT !.val = DictValue(d.val)] ELSE Bad

\* The items of a dict literal, s[i] being just after "{" or ",": a key, a
\* colon, a value (a quoted string or a dict literal), then "," or "}".
RECURSIVE ReadItems(_, _, _)
RECURSIVE AfterKey(_, _, _)
RECURSIVE AfterValue(_, _, _, _)
RECURSIVE ReadValue(_, _)
ReadItems(s, i, acc) ==
    IF i <= Len(s) /\ s[i] = "}"
    THEN [ok |-> TRUE, val |-> acc, next |-> i + 1]
    ELSE AfterKey(s, acc, ReadQuoted(s, i))

AfterKey(s, acc, k) ==
    IF ~k.ok \/ k.next > Len(s) \/ s[k.next] # ":" THEN Bad
    ELSE AfterValue(s, acc, k.val, ReadValue(s, k.next + 1))

AfterValue(s, acc, key, v) ==
    IF ~v.ok \/ v.next > Len(s) THEN Bad
    ELSE IF s[v.next] = "}"
    THEN [ok |-> TRUE, val |-> DictPut(acc, key, v.val), next |-> v.next + 1]
    ELSE IF s[v.next] = ","
    THEN ReadItems(s, v.next + 1, DictPut(acc, key, v.val))
    ELSE Bad

ReadValue(s, i) ==
    IF i > Len(s) THEN Bad
    ELSE IF s[i] = Quote THEN AsStr(ReadQuoted(s, i))
    ELSE IF s[i] = "{" THEN AsDict(ReadItems(s, i + 1, <<>>))
    ELSE Bad

\* ast.literal_eval of a text that must be one dict literal.
WholeText(s, d) == IF d.ok /\ d.next = Len(s) + 1 THEN d ELSE Bad
literal_eval(s) ==
    IF s = <<>> \/ s[1] # "{" THEN Bad
    ELSE WholeText(s, ReadItems(s, 2, <<>>))

\* str.rfind of one character: the highest 0-based index, else -1.
RFindChar(s, c) ==
    LET hits == { i \in 1..Len(s) : s[i] = c }
    IN  IF hits = {} THEN -1
        ELSE (CHOOSE i \in hits : \A j \in hits : j <= i) - 1

\* OutputParser.extract_struct(resp, dict): the text from the first "{" to
\* the last "}" is evaluated as a literal; with no brace at all the empty
\* dict is returned; a text that does not evaluate raises.
ParseOutcome(r) ==
    IF r.ok THEN [raised |-> FALSE, dict |-> r.val]
    ELSE [raised |-> TRUE, dict |-> <<>>]

StructureText(text, start_index, end_index) ==
    IF start_index # -1 /\ end_index # -1
    THEN ParseOutcome(literal_eval(SubSeq(text, start_index + 1,
                                          end_index + 1)))
    ELSE [raised |-> FALSE, dict |-> <<>>]

extract_struct(text) ==
    StructureText(text, Find(text, <<"{">>), RFindChar(text, "}"))

\* dict.get(k): the value, or None.
PyNone == [kind |-> "None", str |-> <<>>, dict |-> <<>>]
DictGet(d, k) ==
    IF \E i \in 1..Len(d) : d[i].key = k
    THEN d[CHOOSE i \in 1..Len(d) : d[i].key = k].value
    ELSE PyNone

\* repr(x) and f"{x}" of a value: a text formats to itself and has the repr
\* of its characters in quotes; None gives "None".
RECURSIVE PyRepr(_)
RECURSIVE ReprItems(_)
ReprItems(d) ==
    IF d = <<>> THEN <<>>
    ELSE <<"'">> \o d[1].key \o <<"'", ":", " ">> \o PyRepr(d[1].value)
         \o (IF Len(d) > 1 THEN <<",", " ">> ELSE <<>>) \o ReprItems(Tail(d))

PyRepr(v) ==
    IF v.kind = "str" THEN <<"'">> \o v.str \o <<"'">>
    ELSE IF v.kind = "None" THEN <<"N", "o", "n", "e">>
    ELSE <<"{">> \o ReprItems(v.dict) \o <<"}">>

PyStr(v) == IF v.kind = "str" THEN v.str ELSE PyRepr(v)

\* ------------------------------------------------------------------ tasks
None == [type |-> "None", directory |-> <<>>, content |-> <<>>]
WriteStoryStruct == [type |-> "WriteStoryStruct", directory |-> <<>>,
                     content |-> <<>>]
WriteContent(directory, content) ==
    [type |-> "WriteContent", directory |-> directory, content |-> content]

\* DIRECTORY_PROMPT.format(topic=..., language=...)
DIRECTORY_PROMPT(topic, language) ==
    <<"DIRECTORY_PROMPT[topic=">> \o topic \o <<"|language=">> \o language
        \o <<"]">>

\* CONTENT_PROMPT.format(topic=..., language=..., content=...): the template
\* has no {language} field.
CONTENT_PROMPT(topic, language, content) ==
    <<"CONTENT_PROMPT[content=">> \o content \o <<"|topic=">> \o topic
        \o <<"]">>

\* The break test of the retry loop: one of the two markers is not found.
accepts(resp) == Find(resp, MarkerUnmet) = -1 \/ Find(resp, MarkerUndone) = -1

\* Faulty variant of chapter_format: the text without its heading.
chapter_format_bare(directory, resp) == resp

\* f"## {self.directory}\n\n{resp}"
chapter_format(directory, resp) ==
    <<"#", "#", " ">> \o directory \o <<NL, NL>> \o resp

\* Faulty variant of chapter_topic: the first chapter reads the memory too.
chapter_topic_from_memory(count, last, title) ==
    IF count > 0
    THEN IF Len(last) > TailLen THEN IndexFromEnd(last, TailLen) ELSE last
    ELSE title

\* The topic argument of todo.run in _act for a WriteContent task, from the
\* counter after its increment, the memory entry read and the main title.
chapter_topic(count, last, title) ==
    IF count > 1
    THEN IF Len(last) > TailLen THEN IndexFromEnd(last, TailLen) ELSE last
    ELSE title

\* Faulty variant of memory_last: the oldest entry.
memory_first(mem) == mem[1]

\* self.rc.memory.get(k=1)[0]: the most recent entry.
memory_last(mem) == mem[Len(mem)]

\* Faulty variant of remember: the entry is dropped.
remember_nothing(mem, resp) == mem

\* Faulty variant of remember: the entry is put in front.
remember_in_front(mem, resp) == <<resp>> \o mem

\* self.rc.memory.add(msg_last)
remember(mem, resp) == Append(mem, resp)

\* Faulty variant of assemble: no separator.
assemble_unseparated(doc, resp) == doc \o resp

\* The assembly step of _act: a separator unless the document is empty,
\* then the chapter.
assemble(doc, resp) ==
    (IF doc # <<>> THEN doc \o <<NL, NL, NL>> ELSE doc) \o resp

\* The lines of the directory message, one per heading.
RECURSIVE directory_lines(_)
directory_lines(items) ==
    IF items = <<>> THEN <<>>
    ELSE <<"-", " ">> \o items[1].key \o <<NL>> \o directory_lines(Tail(items))

\* Faulty variant of directory_of: the chapter tasks in reverse order.
directory_of_reversed(total_dir, title, doc) ==
    [raised        |-> ~(total_dir.kind = "dict"
                         \/ (total_dir.kind = "str" /\ total_dir.str = <<>>)),
     main_title    |-> title,
     total_content |-> doc \o <<"#", " ">> \o title,
     actions       |-> [k \in 1..Len(total_dir.dict) |->
                          WriteContent(
                            total_dir.dict[Len(total_dir.dict) + 1 - k].key,
                            PyStr(total_dir.dict[Len(total_dir.dict) + 1 - k].value))],
     message       |-> title \o <<NL>> \o directory_lines(total_dir.dict)]

\* Faulty variant of directory_of: a missing directory is read as an empty
\* one.
directory_of_lenient(total_dir, title, doc) ==
    [raised        |-> FALSE,
     main_title    |-> title,
     total_content |-> doc \o <<"#", " ">> \o title,
     actions       |-> [k \in 1..Len(total_dir.dict) |->
                          WriteContent(total_dir.dict[k].key,
                                       PyStr(total_dir.dict[k].value))],
     message       |-> title \o <<NL>> \o directory_lines(total_dir.dict)]

\* Faulty variant of directory_of: the chapter tasks are added behind the
\* outline task in place of a new list.
directory_of_extending(total_dir, title, doc) ==
    [raised        |-> ~(total_dir.kind = "dict"
                         \/ (total_dir.kind = "str" /\ total_dir.str = <<>>)),
     main_title    |-> title,
     total_content |-> doc \o <<"#", " ">> \o title,
     actions       |-> <<WriteStoryStruct>> \o
                       [k \in 1..Len(total_dir.dict) |->
                          WriteContent(total_dir.dict[k].key,
                                       PyStr(total_dir.dict[k].value))],
     message       |-> title \o <<NL>> \o directory_lines(total_dir.dict)]

\* Faulty variant of directory_of: the directory summary goes into the
\* document under the title.
directory_of_with_summary(total_dir, title, doc) ==
    [raised        |-> ~(total_dir.kind = "dict"
                         \/ (total_dir.kind = "str" /\ total_dir.str = <<>>)),
     main_title    |-> title,
     total_content |-> doc \o <<"#", " ">> \o title \o <<NL>>
                           \o title \o <<NL>> \o directory_lines(total_dir.dict),
     actions       |-> [k \in 1..Len(total_dir.dict) |->
                          WriteContent(total_dir.dict[k].key,
                                       PyStr(total_dir.dict[k].value))],
     message       |-> title \o <<NL>> \o directory_lines(total_dir.dict)]

\* _handle_directory, with the directory and the formatted title already
\* looked up, as the values it leaves: raised tells that iterating the
\* directory raised TypeError (the title and the document are already
\* changed then, the task list is not).
directory_of(total_dir, title, doc) ==
    [raised        |-> ~(total_dir.kind = "dict"
                         \/ (total_dir.kind = "str" /\ total_dir.str = <<>>)),
     main_title    |-> title,
     total_content |-> doc \o <<"#", " ">> \o title,
     actions       |-> [k \in 1..Len(total_dir.dict) |->
                          WriteContent(total_dir.dict[k].key,
                                       PyStr(total_dir.dict[k].value))],
     message       |-> title \o <<NL>> \o directory_lines(total_dir.dict)]

handle_directory(dict, doc) ==
    directory_of(DictGet(dict, KeyDirectory), PyStr(DictGet(dict, KeyTitle)),
                 doc)

\* ----------------------------------------------------------------- inputs
\* What the text-generation capability may return.  The topic is the one
\* main() passes; titles, headings and summaries are short texts.
Topic == <<"you", "xi">>
Titles == { <<"T">>, <<"U", "V">> }
Headings == { <<"c", "1">>, <<"c", "2">>, <<"c", "3">> }
SummaryOf(h) == <<"s", h[2]>>

\* The sequences of at most n distinct elements of S.
DistinctSeqs(S, n) ==
    UNION { { f \in [1..k -> S] : \A i, j \in 1..k : f[i] = f[j] => i = j } :
            k \in 0..n }

Directories ==
    { [k \in 1..Len(hs) |->
          [key |-> hs[k], value |-> StrValue(SummaryOf(hs[k]))]] :
      hs \in DistinctSeqs(Headings, MaxDir) }

\* The text of a dict of strings, and of the outline answer the instruction
\* of DIRECTORY_WRITE asks for.
RECURSIVE RenderItems(_)
RenderItems(d) ==
    IF d = <<>> THEN <<>>
    ELSE <<Quote>> \o d[1].key \o <<Quote, ":", Quote>> \o d[1].value.str
         \o <<Quote>> \o (IF Len(d) > 1 THEN <<",">> ELSE <<>>)
         \o RenderItems(Tail(d))

RenderOutline(title, directory) ==
    <<"{", Quote>> \o KeyTitle \o <<Quote, ":", Quote>> \o title
        \o <<Quote, ",", Quote>> \o KeyDirectory \o <<Quote, ":", "{">>
        \o RenderItems(directory) \o <<"}", "}">>

NoBraces == <<"s", "o", "r", "r", "y">>
BadLiteral == <<"{", Quote, "t", "}">>
NoDirectory == <<"{", Quote>> \o KeyTitle \o <<Quote, ":", Quote, "T", Quote, "}">>

OutlineTexts ==
    { RenderOutline(t, d) : t \in Titles, d \in Directories }
        \cup { NoBraces, BadLiteral, NoDirectory }

Plain == <<"o", "k">>
OneMarker == <<"x">> \o MarkerUnmet
BothMarkers == MarkerUnmet \o <<"/">> \o MarkerUndone
Alphabet == <<"a", "b", "c", "d", "e", "f", "g">>
Long == [i \in 1..LongLen |-> Alphabet[(i % Len(Alphabet)) + 1]]

ChapterTexts == { Plain, OneMarker, BothMarkers, Long }

Returns(texts) == { Returned(t) : t \in texts }
OrRaises(outcomes) == outcomes \cup { Raised }

\* ------------------------------------------------------------------ state
VARIABLES
    pc,             \* position of the run: "think", "act", "run" (inside
                    \* WriteContent.run, at the await of fill), "persist",
                    \* "done", "error"; "fill"/"filled" in SpecFill
    error,          \* the exception that ended the run, "" when none
    actions,        \* self.actions (self.states is the same list)
    rc_state,       \* self.rc.state
    rc_todo,        \* self.rc.todo
    memory,         \* self.rc.memory: the contents of its messages
    topic,          \* self.topic
    main_title,     \* self.main_title, as the text it formats to
    total_content,  \* self.total_content
    content_count,  \* self.content_count
    msg,            \* the local msg of _react: what the last _act returned
    written,        \* the calls of File.write made
    result,         \* what _react returned
    run_topic,      \* the topic argument of the WriteContent.run in progress
    n,              \* the local n of the WriteContent.run in progress
    act_msg,        \* the memory entry _act read for the task in progress
    executed,       \* history: the tasks _act was entered with, in order
    runs,           \* history: the completed WriteContent.run calls
    titles,         \* history: what WriteStoryStruct.run returned
    gen_calls,      \* history: generator calls of the task in progress
    replaced,       \* history: how often _init_actions replaced the list
    attempts,       \* history: the texts the generator returned to the
                    \* WriteContent.run in progress, in order
    filled,         \* history: the nodes each task invocation filled
    fin,            \* SpecFill: the arguments of the fill under test
    fout            \* SpecFill: what that fill returned

vars == <<pc, error, actions, rc_state, rc_todo, memory, topic, main_title,
          total_content, content_count, msg, written, result, run_topic, n,
          act_msg, executed, runs, titles, gen_calls, replaced, attempts,
          filled, fin, fout>>

Unbound == <<"<unbound>">>
NoFill == [key |-> "", children |-> <<>>, context |-> <<>>, outs |-> <<>>,
           strgy |-> ""]
NoResult == [status |-> "", content |-> <<>>, calls |-> <<>>]

\* StoryAssistant() then role.run(msg): one WriteStoryStruct in the list,
\* nothing selected, the topic message in memory.
Init ==
    /\ pc = "think"
    /\ error = ""
    /\ actions = <<WriteStoryStruct>>
    /\ rc_state = -1
    /\ rc_todo = None
    /\ memory = <<Topic>>
    /\ topic = <<>>
    /\ main_title = <<>>
    /\ total_content = <<>>
    /\ content_count = 0
    /\ msg = Unbound
    /\ written = <<>>
    /\ result = Unbound
    /\ run_topic = <<>>
    /\ n = 0
    /\ act_msg = <<>>
    /\ executed = <<>>
    /\ runs = <<>>
    /\ titles = <<>>
    /\ gen_calls = 0
    /\ replaced = 0
    /\ attempts = <<>>
    /\ filled = {}
    /\ fin = NoFill
    /\ fout = NoResult

\* ---------------------------------------------------------------- run-loop
\* Faulty variant of think_index: the selection is cleared one task early.
think_index_short(todo, state, len) ==
    IF todo = None THEN 0
    ELSE IF state + 2 < len THEN state + 1
    ELSE -1

\* The decision of _think: the index to select, or -1 to clear the selection.
think_index(todo, state, len) ==
    IF todo = None THEN 0
    ELSE IF state + 1 < len THEN state + 1
    ELSE -1

\* _think, then the test of _react that follows it.  _set_state stores the
\* index before it reads the list, so an index outside the list leaves the
\* index stored, the selection as it was, and raises IndexError.
Think ==
    /\ pc = "think"
    /\ LET i == think_index(rc_todo, rc_state, Len(actions))
       IN  IF i = -1
           THEN /\ rc_todo' = None
                /\ pc' = "persist"
                /\ UNCHANGED <<rc_state, error>>
           ELSE /\ rc_state' = i
                /\ IF i < Len(actions)
                   THEN /\ rc_todo' = actions[i + 1]
                        /\ pc' = "act"
                        /\ UNCHANGED error
                   ELSE /\ pc' = "error"
                        /\ error' = "IndexError"
                        /\ UNCHANGED rc_todo
    /\ UNCHANGED <<actions, memory, topic, main_title, total_content,
                   content_count, msg, written, result, run_topic, n, act_msg,
                   executed, runs, titles, gen_calls, replaced, attempts,
                   filled, fin, fout>>

\* The node objects.  The three leaves are module-level objects, the same
\* for every pipeline that holds them as children; a pipeline node is made
\* by the __init__ of the task that owns it, one per task object, and a task
\* object is known by its class and its place in the list it was made for.
module_node(key) == [key |-> key, owner |-> "module", index |-> 0]

\* Faulty variant of task_node: one pipeline node per class.
task_node_per_class(type, index) ==
    [key |-> IF type = "WriteStoryStruct" THEN "Outline Nodes"
             ELSE "Content Nodes",
     owner |-> type, index |-> 0]

task_node(type, index) ==
    [key |-> IF type = "WriteStoryStruct" THEN "Outline Nodes"
             ELSE "Content Nodes",
     owner |-> type, index |-> index]

\* The nodes a fill sets the context or the content of: the node itself and
\* the children it called.
touched(node, calls, invocation) ==
    { [invocation |-> invocation, node |-> x] :
        x \in { node } \cup { module_node(calls[j].key) : j \in 1..Len(calls) } }

\* WriteStoryStruct.run(topic) with the generator's two outcomes outs: the
\* fill of the outline pipeline, then the parse of its content.
struct_of(node, parsed) ==
    IF node.status # "node"
    THEN [error |-> "GenerationError", dict |-> <<>>, calls |-> node.calls]
    ELSE IF parsed.raised
    THEN [error |-> "ParseError", dict |-> <<>>, calls |-> node.calls]
    ELSE [error |-> "", dict |-> parsed.dict, calls |-> node.calls]

parse_node(node) == struct_of(node, extract_struct(node.content))

story_struct_run(t, outs) ==
    parse_node(fill("Outline Nodes", OutlineChildren,
                    DIRECTORY_PROMPT(t, Language), outs, "complex"))

\* _act with the WriteStoryStruct selected: the topic is read from memory,
\* the task runs, and _handle_directory installs the chapter tasks.
ActOutlineOn(outcomes) ==
    /\ pc = "act"
    /\ rc_todo.type = "WriteStoryStruct"
    /\ \E outs \in [1..Len(OutlineChildren) -> outcomes] :
       \E resp \in { story_struct_run(memory_last(memory), outs) } :
       \E hd \in { handle_directory(resp.dict, total_content) } :
             /\ topic' = memory_last(memory)
             /\ act_msg' = memory_last(memory)
             /\ executed' = Append(executed, rc_todo)
             /\ gen_calls' = Len(resp.calls)
             /\ filled' = filled \cup touched(task_node(rc_todo.type, rc_state),
                                              resp.calls, Len(executed) + 1)
             /\ IF resp.error # ""
                THEN /\ pc' = "error"
                     /\ error' = resp.error
                     /\ UNCHANGED <<main_title, total_content, actions,
                                    rc_todo, msg, titles, replaced>>
                ELSE /\ titles' = resp.dict
                     /\ main_title' = hd.main_title
                     /\ total_content' = hd.total_content
                     /\ IF hd.raised
                        THEN /\ pc' = "error"
                             /\ error' = "TypeError"
                             /\ UNCHANGED <<actions, rc_todo, msg, replaced>>
                        ELSE /\ actions' = hd.actions
                             /\ replaced' = replaced + 1
                             /\ rc_todo' = None
                             /\ msg' = hd.message
                             /\ pc' = "think"
                             /\ UNCHANGED error
    /\ UNCHANGED <<rc_state, memory, content_count, written, result,
                   run_topic, n, runs, attempts, fin, fout>>

ActOutline == ActOutlineOn(OrRaises(Returns(OutlineTexts)))

\* _act with a WriteContent selected, up to the first await of its run: the
\* counter, the context read from memory, and n = 0.
ActChapter ==
    /\ pc = "act"
    /\ rc_todo.type = "WriteContent"
    /\ content_count' = content_count + 1
    /\ act_msg' = memory_last(memory)
    /\ run_topic' = chapter_topic(content_count + 1, memory_last(memory),
                                  main_title)
    /\ n' = 0
    /\ gen_calls' = 0
    /\ attempts' = <<>>
    /\ executed' = Append(executed, rc_todo)
    /\ pc' = "run"
    /\ UNCHANGED <<error, actions, rc_state, rc_todo, memory, topic,
                   main_title, total_content, msg, written, result, runs,
                   titles, replaced, filled, fin, fout>>

\* Faulty variant of loop_ends: the loop has no bound.
loop_ends_on_accept(resp, made) == accepts(resp)

\* Whether the retry loop ends after an attempt that left n attempts made
\* and the text resp.
loop_ends(resp, made) == accepts(resp) \/ ~(made < RetryLimit)

\* One pass of the retry loop of WriteContent.run: a fill of the content
\* pipeline with the generator's outcome out.  When the loop ends, the rest
\* of run and of _act follows: format, assemble, remember, return.
AttemptOn(outcomes) ==
    /\ pc = "run"
    /\ \E out \in outcomes :
         LET prompt == CONTENT_PROMPT(run_topic, Language, rc_todo.content)
             node == fill("Content Nodes", ContentChildren, prompt, <<out>>,
                          "complex")
             resp == chapter_format(rc_todo.directory, node.content)
         IN  /\ gen_calls' = gen_calls + Len(node.calls)
             /\ filled' = filled \cup touched(task_node(rc_todo.type, rc_state),
                                              node.calls, Len(executed))
             /\ IF node.status = "raise"
                THEN /\ pc' = "error"
                     /\ error' = "GenerationError"
                     /\ UNCHANGED <<n, total_content, memory, msg, runs,
                                    attempts>>
                ELSE /\ n' = n + 1
                     /\ attempts' = Append(attempts, node.content)
                     /\ UNCHANGED error
                     /\ IF loop_ends(node.content, n + 1)
                        THEN /\ total_content' = assemble(total_content, resp)
                             /\ memory' = remember(memory, resp)
                             /\ msg' = resp
                             /\ runs' = Append(runs,
                                   [task |-> rc_todo, topic |-> run_topic,
                                    read |-> act_msg, body |-> node.content,
                                    resp |-> resp])
                             /\ pc' = "think"
                        ELSE /\ pc' = "run"
                             /\ UNCHANGED <<total_content, memory, msg, runs>>
    /\ UNCHANGED <<actions, rc_state, rc_todo, topic, main_title,
                   content_count, written, result, run_topic, act_msg,
                   executed, titles, replaced, fin, fout>>

Attempt == AttemptOn(OrRaises(Returns(ChapterTexts)))

\* The end of _react: the document is written once and the last message
\* returned.
Persist ==
    /\ pc = "persist"
    /\ written' = Append(written, [filename |-> main_title \o <<".", "m", "d">>,
                                   content |-> total_content])
    /\ result' = msg
    /\ pc' = "done"
    /\ UNCHANGED <<error, actions, rc_state, rc_todo, memory, topic,
                   main_title, total_content, content_count, msg, run_topic,
                   n, act_msg, executed, runs, titles, gen_calls, replaced,
                   attempts, filled, fin, fout>>

Next == Think \/ ActOutline \/ ActChapter \/ Attempt \/ Persist

Spec == Init /\ [][Next]_vars

\* The run-loop with a generator that always returns; the loop is one thread
\* of control that takes its next step whenever it has one.
ActOutlineReturning == ActOutlineOn(Returns(OutlineTexts))
AttemptReturning == AttemptOn(Returns(ChapterTexts))

NextReturning ==
    Think \/ ActOutlineReturning \/ ActChapter \/ AttemptReturning \/ Persist

LiveSpec == Init /\ [][NextReturning]_vars /\ WF_vars(NextReturning)

\* ------------------------------------------------- fill, on its own inputs
\* A pipeline node with any children, any context and any generator
\* outcomes, filled once.
ChildKeys == { STRUCT_WRITE, DIRECTORY_WRITE, STORY_WRITE }
FillTexts == { <<"A">>, <<"B">> }
FillContexts == { <<"c">>, <<"A">> }
FillOutcomes == OrRaises(Returns(FillTexts))

FillInputs ==
    { [key |-> key, children |-> children, context |-> context,
       outs |-> outs, strgy |-> strgy] :
        key \in { "Outline Nodes", "Content Nodes" },
        children \in DistinctSeqs(ChildKeys, MaxChildren),
        context \in FillContexts,
        outs \in UNION { [1..k -> FillOutcomes] : k \in 0..MaxChildren },
        strgy \in { "simple", "complex", "other" } }

InitFill ==
    /\ pc = "fill"
    /\ fin \in { i \in FillInputs :
                   Len(i.outs) = IF i.strgy = "simple" THEN 1
                                 ELSE Len(i.children) }
    /\ fout = NoResult
    /\ error = ""
    /\ actions = <<>>
    /\ rc_state = -1
    /\ rc_todo = None
    /\ memory = <<>>
    /\ topic = <<>>
    /\ main_title = <<>>
    /\ total_content = <<>>
    /\ content_count = 0
    /\ msg = Unbound
    /\ written = <<>>
    /\ result = Unbound
    /\ run_topic = <<>>
    /\ n = 0
    /\ act_msg = <<>>
    /\ executed = <<>>
    /\ runs = <<>>
    /\ titles = <<>>
    /\ gen_calls = 0
    /\ replaced = 0
    /\ attempts = <<>>
    /\ filled = {}

FillApply ==
    /\ pc = "fill"
    /\ fout' = fill(fin.key, fin.children, fin.context, fin.outs, fin.strgy)
    /\ pc' = "filled"
    /\ UNCHANGED <<error, actions, rc_state, rc_todo, memory, topic,
                   main_title, total_content, content_count, msg, written,
                   result, run_topic, n, act_msg, executed, runs, titles,
                   gen_calls, replaced, attempts, filled, fin>>

NextFill == FillApply

SpecFill == InitFill /\ [][NextFill]_vars

\* ================================================================= claims
\* The directory the outline yielded (empty before the outline returned).
Dir == DictGet(titles, KeyDirectory).dict
DirTask(k) == WriteContent(Dir[k].key, PyStr(Dir[k].value))
OutlineDone == replaced >= 1

\* C1: the outline task is executed first and once, then the chapter tasks,
\* the k-th of them being the task of the k-th directory entry; a finished
\* run of N >= 1 entries has executed all N.
C1_DirectoryOrder ==
    /\ Len(executed) <= 1 + Len(Dir)
    /\ \A k \in 1..Len(executed) :
         executed[k] = IF k = 1 THEN WriteStoryStruct ELSE DirTask(k - 1)
    /\ (pc = "done" /\ Len(Dir) >= 1) => Len(executed) = 1 + Len(Dir)

C1_Witness ==
    /\ pc = "done"
    /\ Len(executed) = 4
    /\ executed[2].directory = <<"c", "2">>
    /\ executed[3].directory = <<"c", "3">>
    /\ executed[4].directory = <<"c", "1">>

\* C2 as stated: after a finished run of N entries the memory holds N
\* entries.
C2_MemoryLengthN == pc = "done" => Len(memory) = Len(Dir)

\* C2 as amended: the memory holds the topic entry the outline read and one
\* entry per finished chapter, in order, and nothing from the outline; after
\* a finished run of N entries that is N + 1 entries.
C2_MemoryLengthTopicPlusN ==
    /\ Len(memory) = 1 + Len(runs)
    /\ memory[1] = Topic
    /\ \A k \in 1..Len(runs) : memory[k + 1] = runs[k].resp
    /\ pc = "done" => Len(memory) = Len(Dir) + 1

C2_Witness ==
    /\ pc = "done"
    /\ Len(Dir) = 3
    /\ Len(memory) = 4
    /\ topic = memory[1]

Min(a, b) == IF a < b THEN a ELSE b

\* s[-k:] : the last k characters (all of s when it is shorter).
LastChars(s, k) == SubSeq(s, Len(s) - Min(k, Len(s)) + 1, Len(s))

\* C3: every chapter task after the first gets the most recent memory entry
\* cut to its last TailLen characters when it is longer, else all of it.
C3_LastHundred ==
    \A k \in 2..Len(runs) :
        runs[k].topic = IF Len(runs[k].read) > TailLen
                        THEN LastChars(runs[k].read, TailLen)
                        ELSE runs[k].read

\* C4: the context of chapter i > 1 is computed from the entry chapter i-1
\* appended and from nothing else: the entry read is that entry, and the
\* context is a function of it alone.
ContextOf(entry) ==
    IF Len(entry) > TailLen THEN IndexFromEnd(entry, TailLen) ELSE entry

C4_PreviousChapterOnly ==
    /\ \A k \in 2..Len(runs) :
         /\ runs[k].read = runs[k - 1].resp
         /\ runs[k].topic = ContextOf(runs[k].read)
    /\ (pc = "run" /\ content_count > 1) =>
         /\ act_msg = runs[Len(runs)].resp
         /\ run_topic = ContextOf(act_msg)

C4_Witness ==
    /\ Len(runs) = 3
    /\ runs[1].body = Plain
    /\ runs[2].body = OneMarker
    /\ runs[3].topic = runs[2].resp
    /\ runs[3].topic # runs[1].resp

\* C5: the first chapter task gets the main title as its context, whatever
\* the memory holds; every later one gets the context computed from the
\* memory entry it read.
C5_FirstChapterTitle ==
    /\ (pc = "run" /\ content_count = 1) => run_topic = main_title
    /\ Len(runs) >= 1 => runs[1].topic = main_title
    /\ \A k \in 2..Len(runs) : runs[k].topic = ContextOf(runs[k].read)

C5_Witness ==
    /\ Len(runs) = 2
    /\ runs[1].topic = <<"U", "V">>
    /\ runs[1].read = Topic
    /\ runs[2].topic # main_title

\* C6: one chapter task calls the generator at least once and at most
\* RetryLimit times, whatever the generator returns.
InChapter ==
    executed # <<>> /\ executed[Len(executed)].type = "WriteContent"

C6_RetryBound ==
    InChapter =>
      /\ gen_calls <= RetryLimit
      /\ pc = "run" => gen_calls = n /\ n < RetryLimit
      /\ pc # "run" => 1 <= gen_calls
      /\ pc \notin {"run", "error"} => gen_calls = n

C6_Witness ==
    /\ pc = "think"
    /\ Len(runs) = 1
    /\ gen_calls = RetryLimit
    /\ runs[1].body = BothMarkers

\* C7: a complex fill of a node with children calls the children in
\* insertion order, the first with the context given, each later one with
\* the content of the one before, and returns the last child's content.
C7_Threading ==
    (pc = "filled" /\ fin.strgy = "complex" /\ fin.children # <<>>
        /\ fout.status = "node") =>
      /\ Len(fout.calls) = Len(fin.children)
      /\ \A j \in 1..Len(fin.children) :
           /\ fout.calls[j].key = fin.children[j]
           /\ fout.calls[j].context = IF j = 1 THEN fin.context
                                      ELSE fin.outs[j - 1].text
      /\ fout.content = fin.outs[Len(fin.children)].text

C7_Witness ==
    /\ pc = "filled"
    /\ fin.strgy = "complex"
    /\ fin.children = OutlineChildren
    /\ fin.context = <<"c">>
    /\ fin.outs = << Returned(<<"A">>), Returned(<<"B">>) >>
    /\ fout.content = <<"B">>
    /\ fout.calls[2] = [key |-> DIRECTORY_WRITE, context |-> <<"A">>]

\* C8: the document written is the title header, then for each chapter in
\* directory order a separator, the heading header and the body.
RECURSIVE Sections(_)
Sections(k) ==
    IF k = 0 THEN <<>>
    ELSE Sections(k - 1) \o <<NL, NL, NL>> \o <<"#", "#", " ">> \o Dir[k].key
         \o <<NL, NL>> \o runs[k].body

C8_Document ==
    /\ OutlineDone => total_content = <<"#", " ">> \o main_title
                                        \o Sections(Len(runs))
    /\ \A w \in 1..Len(written) :
         /\ Len(runs) = Len(Dir)
         /\ written[w].content = <<"#", " ">> \o main_title
                                   \o Sections(Len(Dir))

C8_Witness ==
    /\ written # <<>>
    /\ Len(Dir) = 2
    /\ Dir[1].key = <<"c", "3">>
    /\ Dir[2].key = <<"c", "1">>
    /\ runs[1].body = Long
    /\ runs[2].body = Plain

\* C9: a complex fill of a node without children fails; it does not return
\* the node with a content.
C9_EmptyChildrenRejected ==
    (pc = "filled" /\ fin.strgy = "complex" /\ fin.children = <<>>) =>
        fout.status # "node"

\* C10: with a generator that always returns, a run whose outline installed
\* N >= 1 chapter tasks ends; the loop ends when think clears the selection
\* after the last chapter, the document is written once, after all N
\* chapters, and the run returns the last chapter's formatted output.
C10_Safety ==
    /\ Len(written) <= 1
    /\ pc = "persist" =>
         /\ rc_todo = None
         /\ rc_state + 1 = Len(actions)
         /\ Len(runs) = Len(Dir)
         /\ written = <<>>
    /\ written # <<>> =>
         /\ pc = "done"
         /\ Len(runs) = Len(Dir)
         /\ Len(Dir) >= 1
         /\ result = runs[Len(Dir)].resp
         /\ result = chapter_format(Dir[Len(Dir)].key, runs[Len(Dir)].body)

C10_Terminates ==
    /\ (OutlineDone /\ Len(Dir) >= 1) ~> (pc = "done")
    /\ []C10_Safety

C10_Witness ==
    /\ pc = "done"
    /\ Len(Dir) = 3
    /\ Len(written) = 1
    /\ result = runs[3].resp

\* The outline act ended and its answer held no directory: the generation
\* failed, the answer was no literal, or the dict lacks the directory.
OutlineFailed ==
    /\ executed # <<>>
    /\ DictGet(titles, KeyDirectory).kind = "None"

\* C11: a failure of a task ends the run with nothing written: an error is
\* an end state and the document was not written before it; when the
\* outline act failed the task list is still the one outline task, it was
\* never replaced, and no chapter task was made, selected or run.
C11_FailureHalts ==
    /\ error # "" <=> pc = "error"
    /\ pc = "error" =>
         /\ written = <<>>
         /\ result = Unbound
         /\ ~ENABLED Next
    /\ OutlineFailed =>
         /\ pc = "error"
         /\ error \in {"GenerationError", "ParseError", "TypeError"}
         /\ actions = <<WriteStoryStruct>>
         /\ replaced = 0
         /\ executed = <<WriteStoryStruct>>
         /\ runs = <<>>
         /\ content_count = 0

C11_Witness ==
    /\ pc = "error"
    /\ error = "ParseError"
    /\ executed = <<WriteStoryStruct>>
    /\ gen_calls = 2
    /\ written = <<>>

\* A text that contains at least one of the two markers.
HasMarker(t) == Find(t, MarkerUnmet) # -1 \/ Find(t, MarkerUndone) # -1

\* C12: in a chapter run the retrying stops after an attempt exactly when
\* its text contains neither marker or five attempts were made: every
\* attempt before the last one returned a text with a marker, a run still
\* retrying got one, and a run that stopped before the fifth attempt got a
\* text with neither marker.
C12_RetryWhileMarker ==
    InChapter =>
      /\ \A j \in 1..(Len(attempts) - 1) : HasMarker(attempts[j])
      /\ (pc = "run" /\ attempts # <<>>) =>
           HasMarker(attempts[Len(attempts)])
      /\ (pc \notin {"run", "error"} /\ Len(attempts) < RetryLimit) =>
           ~HasMarker(attempts[Len(attempts)])

\* C13: when the fifth attempt of a chapter run was made and every attempt
\* returned a text with a marker, the run does not fail: the act ends with
\* the fifth text under the chapter's heading as its message, that message
\* is what memory and document receive, and no earlier attempt's text is
\* in it.
C13_ExhaustedAccepted ==
    (/\ InChapter
     /\ Len(attempts) = RetryLimit
     /\ \A j \in 1..RetryLimit : HasMarker(attempts[j])) =>
      /\ pc \notin {"run", "error"}
      /\ error = ""
      /\ n = RetryLimit
      /\ msg = <<"#", "#", " ">> \o executed[Len(executed)].directory
                 \o <<NL, NL>> \o attempts[RetryLimit]
      /\ runs[Len(runs)].resp = msg
      /\ memory[Len(memory)] = msg
      /\ \A j \in 1..(RetryLimit - 1) :
           attempts[j] # attempts[RetryLimit] => Find(msg, attempts[j]) = -1

C13_Witness ==
    /\ pc = "think"
    /\ Len(runs) = 2
    /\ Len(attempts) = RetryLimit
    /\ \A j \in 1..(RetryLimit - 1) : attempts[j] = BothMarkers
    /\ attempts[RetryLimit] = OneMarker
    /\ msg = <<"#", "#", " ">> \o Dir[2].key \o <<NL, NL>> \o OneMarker

\* The task list as states show it: the one outline task until the list is
\* replaced, then one chapter task per directory entry, in order.
C14_Lists ==
    /\ replaced \in {0, 1}
    /\ (executed # <<>> /\ pc # "error") => replaced = 1
    /\ ~OutlineDone => actions = <<WriteStoryStruct>>
    /\ OutlineDone =>
         /\ Len(actions) = Len(Dir)
         /\ \A k \in 1..Len(Dir) : actions[k] = DirTask(k)
         /\ \A k \in 1..Len(actions) : actions[k].type = "WriteContent"

\* A step that changes the task list is the outline act: no chapter act came
\* before it, it is the first replacement, and it leaves the new list with
\* the selection cleared.
C14_ReplacingStep ==
    (actions' # actions \/ replaced' # replaced) =>
      /\ pc = "act"
      /\ rc_todo = WriteStoryStruct
      /\ executed = <<>>
      /\ replaced = 0
      /\ replaced' = 1
      /\ executed' = <<WriteStoryStruct>>
      /\ Len(actions') = Len(Dir')
      /\ \A k \in 1..Len(actions') :
           /\ actions'[k].type = "WriteContent"
           /\ actions'[k].directory = Dir'[k].key
      /\ rc_todo' = None
      /\ pc' = "think"

\* The think that follows the replacement selects index 0.
C14_NextThink ==
    (pc = "think" /\ OutlineDone /\ executed = <<WriteStoryStruct>>) =>
      /\ rc_todo = None
      /\ rc_state' = 0
      /\ actions # <<>> => rc_todo' = actions[1]

\* C14: the task list is replaced at most once, and only by the act that
\* completes the outline task, never in or after a chapter act; right after
\* the replacement the list holds one chapter task per directory entry, in
\* order, and no outline task, and the selection is cleared so that the
\* next think selects index 0 of the new list.
C14_ReplacedOnce ==
    /\ []C14_Lists
    /\ [][C14_ReplacingStep /\ C14_NextThink]_vars

C14_Witness ==
    /\ pc = "act"
    /\ replaced = 1
    /\ executed = <<WriteStoryStruct>>
    /\ Len(Dir) = 3
    /\ actions = <<DirTask(1), DirTask(2), DirTask(3)>>
    /\ rc_state = 0
    /\ rc_todo = actions[1]

\* C15: once the outline act has completed, the directory has at least one
\* entry and the installed list of chapter tasks is not empty.
C15_DirectoryNonEmpty ==
    OutlineDone => (Len(Dir) >= 1 /\ actions # <<>>)

\* C16 as stated: no node is filled in two task invocations.
C16_NoNodeReused ==
    \A a \in filled : \A b \in filled :
        a.invocation # b.invocation => a.node # b.node

\* C16, amended: the pipeline node a task invocation fills is the node of
\* the task that runs, filled in no other invocation; the nodes filled in
\* more than one invocation are module-level leaves, and every chapter
\* invocation that called the generator filled the one Story Write leaf.
C16_OnlyLeavesReused ==
    /\ \A a \in filled : \A b \in filled :
         (a.invocation # b.invocation /\ a.node = b.node) =>
           a.node.owner = "module"
    /\ \A a \in filled :
         /\ a.invocation \in 1..Len(executed)
         /\ a.node.owner # "module" =>
              /\ a.node.owner = executed[a.invocation].type
              /\ a.invocation = 1 => a.node = task_node("WriteStoryStruct", 0)
              /\ a.invocation > 1 =>
                   a.node = task_node("WriteContent", a.invocation - 2)
    /\ \A i \in 2..Len(executed) :
         (i < Len(executed) \/ gen_calls > 0) =>
           [invocation |-> i, node |-> module_node(STORY_WRITE)] \in filled

C16_Witness ==
    /\ Len(executed) = 3
    /\ pc = "think"
    /\ { a.node : a \in { b \in filled : b.invocation = 2 } }
         = { task_node("WriteContent", 0), module_node(STORY_WRITE) }
    /\ { a.node : a \in { b \in filled : b.invocation = 3 } }
         = { task_node("WriteContent", 1), module_node(STORY_WRITE) }

\* The directory summary the outline act returns: the title line and one
\* "- heading" line per directory entry.
OutlineMessage == main_title \o <<NL>> \o directory_lines(Dir)

\* The outline act as a step: the memory is left as it was, and the
\* document is either left as it was or, once the title is known, is the
\* title header alone; a completed act returns the directory summary.
C17_OutlineStep ==
    (pc = "act" /\ rc_todo = WriteStoryStruct) =>
      /\ memory' = memory
      /\ total_content = <<>>
      /\ total_content' \in {<<>>, <<"#", " ">> \o main_title'}
      /\ pc' # "error" =>
           /\ total_content' = <<"#", " ">> \o main_title'
           /\ msg' = OutlineMessage'

\* The directory summary is no memory entry, and is in no memory entry, not
\* in the document and not in what was written.
C17_SummaryKept ==
    OutlineDone =>
      /\ \A i \in 1..Len(memory) :
           memory[i] # OutlineMessage /\ Find(memory[i], OutlineMessage) = -1
      /\ Find(total_content, OutlineMessage) = -1
      /\ \A i \in 1..Len(written) :
           Find(written[i].content, OutlineMessage) = -1
      /\ Len(memory) = 1 + Len(runs)

\* C17: the outline act adds nothing to the memory and no section to the
\* document: its only effect on the document is the main title header, and
\* the directory summary it returns never appears in the memory or in the
\* persisted document.
C17_OutlineLeavesNoSection ==
    /\ []C17_SummaryKept
    /\ [][C17_OutlineStep]_vars

C17_Witness ==
    /\ pc = "done"
    /\ Len(Dir) = 2
    /\ Len(memory) = 3
    /\ Len(written) = 1
    /\ Find(written[1].content, <<"#", " ">> \o main_title) = 0
    /\ Find(written[1].content, OutlineMessage) = -1

\* s is a prefix of t.
IsPrefix(s, t) == Len(s) <= Len(t) /\ SubSeq(t, 1, Len(s)) = s

\* The step that ends a chapter act: the retry loop ends and _act returns.
ChapterActEnds == pc = "run" /\ pc' = "think"

\* C18: memory and document only grow at their ends: over every step the
\* memory before is a prefix of the memory after and the document before a
\* prefix of the document after; the step that ends a chapter act appends
\* one memory entry, the formatted chapter it returns, and appends that same
\* text to the document; every other step of a chapter act appends no
\* memory entry, and a think step changes neither.
C18_Step ==
    /\ IsPrefix(memory, memory')
    /\ IsPrefix(total_content, total_content')
    /\ ChapterActEnds =>
         /\ memory' = memory \o <<msg'>>
         /\ msg' = <<"#", "#", " ">> \o rc_todo.directory \o <<NL, NL>>
                     \o attempts'[Len(attempts')]
         /\ Len(total_content') >= Len(total_content) + Len(msg')
         /\ SubSeq(total_content', Len(total_content') - Len(msg') + 1,
                   Len(total_content')) = msg'
    /\ ~ChapterActEnds => memory' = memory
    /\ (~ChapterActEnds /\ pc # "act") => total_content' = total_content
    /\ pc = "think" => (memory' = memory /\ total_content' = total_content)

C18_AppendOnly == [][C18_Step]_vars

C18_Witness ==
    /\ pc = "think"
    /\ Len(runs) = 2
    /\ memory = <<Topic, runs[1].resp, runs[2].resp>>
    /\ IsPrefix(<<"#", " ">> \o main_title \o <<NL, NL, NL>> \o runs[1].resp,
                total_content)
    /\ Len(total_content) > Len(main_title) + 5 + Len(runs[1].resp)

\* C19: whenever a task is selected the cursor is an index of the task list
\* and the selected task is the element there, and think never selects an
\* index outside the list: no state has a cursor that think stored past the
\* end of the list, whatever the size of the directory.
C19_CursorInBounds ==
    /\ rc_todo # None =>
         /\ rc_state \in 0..(Len(actions) - 1)
         /\ actions[rc_state + 1] = rc_todo
    /\ error # "IndexError"
    /\ (pc \in {"act", "run"}) => rc_state < Len(actions)

====
